---- MODULE Spec2Model ----
(***************************************************************************)
(* A model of src/datasets/batch_data.py (Python 2):                       *)
(*   - batch_data, the batching / label-balancing generator;               *)
(*   - pick_splits, the probabilistic bin selector;                        *)
(*   - write_batch_to_h5, split_data and H5Iterator over an HDF5 store.    *)
(* Documents are identified by their position in the record stream; the    *)
(* normalizer and the transformer are external collaborators, so the only  *)
(* thing modelled about them is whether the normalizer rejects a record.   *)
(***************************************************************************)
EXTENDS Integers, Sequences, FiniteSets, TLC

\* Python's None, for the optional integer parameters (nlabels, max_records)
\* and for a function that falls off its end (pick_splits).
None == -1

-----------------------------------------------------------------------------
(* Bounds of the model *)

\* records the data_loader can supply before it is exhausted
MaxPulls == 5
\* largest max_records value tried (max_records ranges over None and 0..MaxCap)
MaxCap == 4

\* probabilities are multiples of 1/Grid, and so are the draws in [0,1)
Grid == 4
\* longest splits list given to pick_splits on its own
MaxSplits == 2
\* batches a batch_iterator can supply to one split_data call
MaxBatches == 2

\* leading dimensions of the batches a batch_iterator supplies
BatchLens == {1, 2}
\* splits arguments given to split_data, in units of 1/Grid; the last one sums
\* to 1 on the grid of 4 and fails the assertion of pick_splits
SplitChoices == {<<2>>, <<1, 1>>, <<3, 1>>}
\* batch_size values tried
BatchSizes == {1, 2, 4}
\* nlabels values tried
NLabelChoices == {None, 1, 2}
\* labels the records carry
Labels == {0, 1, 2}

-----------------------------------------------------------------------------
(* State *)

VARIABLES
    \* ---- batch_data ----
    cfg,          \* the arguments of the batch_data call
    pc,           \* where the generator is: created, running, suspended, done, raised
    err,          \* the exception that ended the generator, or "none"
    docs,         \* balanced mode: label -> queue of documents
    docs_labels,  \* unbalanced mode: queue of <<document, label>>
    nr_yielded,   \* the generator's own count of records yielded
    pulled,       \* history: the records pulled from data_loader so far
    exhausted,    \* history: data_loader has signalled its end
    emitted       \* history: the batches handed to the consumer so far

VARIABLES
    \* ---- pick_splits on its own ----
    pk_splits,    \* the splits argument
    pk_num,       \* the value np.random.random() returns, in units of 1/Grid
    pk_pc,        \* called, returned, raised
    pk_result     \* the value returned

VARIABLES
    \* ---- split_data, write_batch_to_h5, H5Iterator ----
    sp_call,          \* the arguments of the split_data call in progress or last made
    sp_pc,            \* idle, writing, returned, raised
    sp_err,           \* the exception that ended the call, or "none"
    file,             \* the HDF5 file at h5_path
    bin_sizes,        \* split_data's bin_sizes
    initialized_file, \* split_data's initialized_file
    written,          \* history: per batch of this call, its length, its bin,
                      \* and the size lists around its write_batch_to_h5 call
    readers,          \* the H5Iterators returned
    passes,           \* per reader iterated: the generator of its latest pass
                      \* (the reader, the indices visited so far, its state)
    last_yield,       \* the record the latest next() returned, with its reader
                      \* and index
    file_at_call,     \* history: the file as the call found it
    populated         \* history: the splits and bin sizes of the call that wrote the file

bvars == <<cfg, pc, err, docs, docs_labels, nr_yielded, pulled, exhausted, emitted>>

pvars == <<pk_splits, pk_num, pk_pc, pk_result>>

svars == <<sp_call, sp_pc, sp_err, file, bin_sizes, initialized_file, written,
           readers, passes, last_yield, file_at_call, populated>>

vars == <<bvars, pvars, svars>>

\* Each specification below runs one part of the program; the variables of the
\* other parts then rest at these values.
BatchIdle ==
    /\ cfg = <<>> /\ pc = "unused" /\ err = "none" /\ docs = <<>>
    /\ docs_labels = <<>> /\ nr_yielded = 0 /\ pulled = <<>>
    /\ exhausted = FALSE /\ emitted = <<>>

PickIdle ==
    /\ pk_splits = <<>> /\ pk_num = 0 /\ pk_pc = "unused" /\ pk_result = None

SplitIdle ==
    /\ sp_call = <<>> /\ sp_pc = "unused" /\ sp_err = "none" /\ file = <<>>
    /\ bin_sizes = <<>> /\ initialized_file = FALSE /\ written = <<>>
    /\ readers = <<>> /\ passes = <<>> /\ last_yield = <<>>
    /\ file_at_call = <<>> /\ populated = <<>>

-----------------------------------------------------------------------------
(* Helpers *)

Min(a, b) == IF a <= b THEN a ELSE b

SetMin(S) == CHOOSE x \in S : \A y \in S : x <= y

SetMax(S) == CHOOSE x \in S : \A y \in S : x >= y

\* sorted(docs.keys()), line 119
RECURSIVE sorted(_)
sorted(S) ==
    IF S = {} THEN <<>>
    ELSE LET m == SetMin(S) IN <<m>> \o sorted(S \ {m})

RECURSIVE SumSeq(_)
SumSeq(s) == IF s = <<>> THEN 0 ELSE Head(s) + SumSeq(Tail(s))

\* number of positions of s holding x
Count(s, x) == Cardinality({i \in 1..Len(s) : s[i] = x})

-----------------------------------------------------------------------------
(* batch_data *)

\* The configurations tried.  nlabels is "used only if balance_labels is True"
\* (docstring, line 56), so it is left at its default when not balancing.
Configs ==
    {c \in [batch_size : BatchSizes, nlabels : NLabelChoices,
            balance_labels : BOOLEAN, max_records : {None} \cup (0..MaxCap)] :
        (~c.balance_labels) => c.nlabels = None}

\* One record of the data_loader: its label and whether the normalizer
\* accepts its text (ok) or raises DataException.  A rejected record's label
\* is never read, so one label stands for all of them.
Records ==
    {r \in [label : Labels, ok : BOOLEAN] : (~r.ok) => r.label = 0}

\* AssertsHold without the divisibility test of line 69
AssertsHold_NoDivisibility(c) ==
    c.balance_labels => c.nlabels # None

\* lines 67-69: the assertions run when the generator body starts
AssertsHold(c) ==
    c.balance_labels => (c.nlabels # None /\ c.batch_size % c.nlabels = 0)

\* Rejected letting every record through
Rejected_Never(r) == FALSE

\* lines 89-93 and 102-106: normalizer_fun raises DataException on the record's
\* text, which skips the enqueueing of lines 95-101
Rejected(r) == ~r.ok

\* lines 95-101: add the transformed document to its queue
EnqueueDocs(c, d, doc, label) ==
    IF ~c.balance_labels THEN d
    ELSE IF label \in DOMAIN d
         THEN [d EXCEPT ![label] = Append(@, doc)]
         ELSE [k \in DOMAIN d \cup {label} |-> IF k = label THEN <<doc>> ELSE d[k]]

\* EnqueueDocsLabels putting the new pair at the head of the queue
EnqueueDocsLabels_Front(c, dl, doc, label) ==
    IF c.balance_labels THEN dl ELSE <<<<doc, label>>>> \o dl

\* line 101
EnqueueDocsLabels(c, dl, doc, label) ==
    IF c.balance_labels THEN dl ELSE Append(dl, <<doc, label>>)

\* DispatchReady with the balanced test weakened to "every queue is non-empty"
DispatchReady_NonEmpty(c, d, dl) ==
    \/ /\ c.balance_labels
       /\ \A k \in DOMAIN d : Len(d[k]) >= 1
       /\ Cardinality(DOMAIN d) = c.nlabels
    \/ /\ ~c.balance_labels
       /\ Len(dl) >= c.batch_size

\* DispatchReady without the test len(docs) == nlabels
DispatchReady_AnyLabelCount(c, d, dl) ==
    \/ /\ c.balance_labels
       /\ \A k \in DOMAIN d : Len(d[k]) >= c.batch_size \div c.nlabels
    \/ /\ ~c.balance_labels
       /\ Len(dl) >= c.batch_size

\* lines 109-112: the dispatch condition (batch_size/nlabels is Python 2
\* integer division)
DispatchReady(c, d, dl) ==
    \/ /\ c.balance_labels
       /\ \A k \in DOMAIN d : Len(d[k]) >= c.batch_size \div c.nlabels
       /\ Cardinality(DOMAIN d) = c.nlabels
    \/ /\ ~c.balance_labels
       /\ Len(dl) >= c.batch_size

\* line 122: the main accumulation loop goes on
LoopContinues(c, batched_docs) == Len(batched_docs) < c.batch_size

\* CapReached testing the count already yielded instead of the count after
\* the batch
CapReached_AfterTheFact(c, nr) ==
    c.max_records # None /\ nr > c.max_records

\* CapReached with >= for >
CapReached_OffByOne(c, nr) ==
    c.max_records # None /\ nr + c.batch_size >= c.max_records

\* CapReached with max_records ignored
CapReached_Never(c, nr) == FALSE

\* line 123: emitting one more batch would pass max_records
CapReached(c, nr) ==
    c.max_records # None /\ nr + c.batch_size > c.max_records

\* lines 142-144: advance the label index, wrapping at nlabels
NextLabelIdx(c, idx) == IF idx + 1 = c.nlabels THEN 0 ELSE idx + 1

\* lines 122-144: the main accumulation loop, from state
\* s = [docs, docs_labels, batched_docs, batched_labels, cur_label_idx], with
\* iters, the passes through the loop body that reached the try of line 125,
\* and skips, those of them whose pop failed on an empty list (lines 135-138).
\* The result adds out: "ok" (loop left with a full batch), "halt" (return at
\* line 124), "KeyError" (docs[cur_label_idx] has no such key, line 129: not an
\* IndexError, so it propagates), "diverge" (every pop fails with 'pop from empty
\* list', which lines 135-138 swallow, for ever).
RECURSIVE Accumulate(_, _, _, _)
Accumulate(c, nr, sorted_unique_labels, s) ==
    IF ~LoopContinues(c, s.batched_docs) THEN [s EXCEPT !.out = "ok"]
    ELSE IF CapReached(c, nr) THEN [s EXCEPT !.out = "halt"]
    ELSE IF c.balance_labels
    THEN LET idx == s.cur_label_idx
             next_label == sorted_unique_labels[idx + 1]
         IN  IF idx \notin DOMAIN s.docs
             THEN [s EXCEPT !.out = "KeyError"]
             ELSE IF s.docs[idx] = <<>>
             THEN IF \A i \in 0..(c.nlabels - 1) :
                        i \in DOMAIN s.docs /\ s.docs[i] = <<>>
                  THEN [s EXCEPT !.out = "diverge"]
                  ELSE Accumulate(c, nr, sorted_unique_labels,
                         [s EXCEPT !.cur_label_idx = NextLabelIdx(c, idx),
                                   !.iters = s.iters + 1,
                                   !.skips = s.skips + 1])
             ELSE Accumulate(c, nr, sorted_unique_labels,
                    [s EXCEPT !.docs[idx] = Tail(@),
                              !.batched_docs = Append(@, Head(s.docs[idx])),
                              !.batched_labels = Append(@, next_label),
                              !.cur_label_idx = NextLabelIdx(c, idx),
                              !.iters = s.iters + 1])
    ELSE IF s.docs_labels = <<>>
         THEN [s EXCEPT !.out = "diverge"]
         ELSE Accumulate(c, nr, sorted_unique_labels,
                [s EXCEPT !.docs_labels = Tail(@),
                          !.batched_docs = Append(@, Head(s.docs_labels)[1]),
                          !.batched_labels = Append(@, Head(s.docs_labels)[2]),
                          !.cur_label_idx = NextLabelIdx(c, s.cur_label_idx),
                          !.iters = s.iters + 1])

\* lines 113-144: a dispatch from the queues d, dl
Dispatch(c, nr, d, dl) ==
    Accumulate(c, nr,
               IF c.balance_labels THEN sorted(DOMAIN d) ELSE <<>>,
               [docs |-> d, docs_labels |-> dl, batched_docs |-> <<>>,
                batched_labels |-> <<>>, cur_label_idx |-> 0, iters |-> 0,
                skips |-> 0, out |-> "loop"])

\* lines 145-150: the two arrays of a batch.  reshape((batch_size, -1)) keeps
\* the records in order; the leading dimension of each array is its length here.
MakeBatch(batched_docs, batched_labels) ==
    [data |-> batched_docs, labels |-> batched_labels]

BatchInit ==
    /\ cfg \in Configs
    /\ pc = "created"
    /\ err = "none"
    /\ docs = <<>>
    /\ docs_labels = <<>>
    /\ nr_yielded = 0
    /\ pulled = <<>>
    /\ exhausted = FALSE
    /\ emitted = <<>>

\* The consumer asks for the next batch.  The first request starts the
\* generator body (lines 65-86, with the assertions of lines 68-69); a later one
\* resumes it after the yield of line 157.
ConsumerNext ==
    /\ pc \in {"created", "suspended"}
    /\ IF pc = "created" /\ ~AssertsHold(cfg)
       THEN pc' = "raised" /\ err' = "AssertionError"
       ELSE pc' = "running" /\ err' = err
    /\ UNCHANGED <<cfg, docs, docs_labels, nr_yielded, pulled, exhausted, emitted>>
    /\ UNCHANGED <<pvars, svars>>

\* One iteration of the for loop of line 87 on record r: lines 88-157.
LoopBody(r) ==
    LET doc == Len(pulled) + 1
        d1  == IF Rejected(r) THEN docs
               ELSE EnqueueDocs(cfg, docs, doc, r.label)
        dl1 == IF Rejected(r) THEN docs_labels
               ELSE EnqueueDocsLabels(cfg, docs_labels, doc, r.label)
    IN  /\ pulled' = Append(pulled, r)
        /\ IF DispatchReady(cfg, d1, dl1)
           THEN LET s == Dispatch(cfg, nr_yielded, d1, dl1)
                IN  /\ docs' = s.docs
                    /\ docs_labels' = s.docs_labels
                    /\ CASE s.out = "ok" ->
                              /\ emitted' = Append(emitted,
                                     MakeBatch(s.batched_docs, s.batched_labels))
                              /\ nr_yielded' = nr_yielded + cfg.batch_size
                              /\ pc' = "suspended"
                              /\ err' = err
                         [] s.out = "halt" ->
                              /\ pc' = "done"
                              /\ UNCHANGED <<emitted, nr_yielded, err>>
                         [] s.out = "KeyError" ->
                              /\ pc' = "raised"
                              /\ err' = "KeyError"
                              /\ UNCHANGED <<emitted, nr_yielded>>
                         [] OTHER ->
                              /\ pc' = "diverged"
                              /\ UNCHANGED <<emitted, nr_yielded, err>>
           ELSE /\ docs' = d1
                /\ docs_labels' = dl1
                /\ UNCHANGED <<pc, err, emitted, nr_yielded>>

\* PullRecord pulling ahead while the consumer holds the last batch
PullRecord_Prefetch ==
    /\ pc \in {"running", "suspended"}
    /\ Len(pulled) < MaxPulls
    /\ \E r \in Records : LoopBody(r)
    /\ UNCHANGED <<cfg, exhausted>>
    /\ UNCHANGED <<pvars, svars>>

\* The running generator pulls one record from data_loader (line 87).
PullRecord ==
    /\ pc = "running"
    /\ Len(pulled) < MaxPulls
    /\ \E r \in Records : LoopBody(r)
    /\ UNCHANGED <<cfg, exhausted>>
    /\ UNCHANGED <<pvars, svars>>

\* SourceExhausted flushing what is left in the queue as a last, short batch
SourceExhausted_FlushPartial ==
    /\ pc = "running"
    /\ exhausted' = TRUE
    /\ pc' = "done"
    /\ emitted' = IF docs_labels = <<>> THEN emitted
                  ELSE Append(emitted,
                         MakeBatch([i \in 1..Len(docs_labels) |-> docs_labels[i][1]],
                                   [i \in 1..Len(docs_labels) |-> docs_labels[i][2]]))
    /\ UNCHANGED <<cfg, err, docs, docs_labels, nr_yielded, pulled>>
    /\ UNCHANGED <<pvars, svars>>

\* data_loader is exhausted: the for loop ends and the generator returns.
SourceExhausted ==
    /\ pc = "running"
    /\ exhausted' = TRUE
    /\ pc' = "done"
    /\ UNCHANGED <<cfg, err, docs, docs_labels, nr_yielded, pulled, emitted>>
    /\ UNCHANGED <<pvars, svars>>

Init == BatchInit /\ PickIdle /\ SplitIdle

Next == ConsumerNext \/ PullRecord \/ SourceExhausted

\* batch_data driven by a consumer
Spec == Init /\ [][Next]_vars

\* ---- batch_data with max_records set, on a data_loader that never ends ----

\* labels the endless data_loader supplies
EndlessLabels == {0, 1}

\* Records looked at from the endless data_loader: the data_loader has more,
\* the runs are followed this far.  With max_records set, an unbalanced run
\* returns within max_records + batch_size records, so this many show every
\* such run to its end; of a run still going after this many, only what holds
\* of every state so far is concluded.
Horizon == MaxCap + SetMax(BatchSizes)

InitEndless ==
    /\ BatchInit
    /\ cfg.max_records # None
    /\ PickIdle /\ SplitIdle

\* The running generator pulls one record (line 87) from a data_loader that
\* always has one more, which the normalizer accepts.
PullAccepted ==
    /\ pc = "running"
    /\ Len(pulled) < Horizon
    /\ \E r \in Records : r.ok /\ r.label \in EndlessLabels /\ LoopBody(r)
    /\ UNCHANGED <<cfg, exhausted>>
    /\ UNCHANGED <<pvars, svars>>

NextEndless == ConsumerNext \/ PullAccepted

\* batch_data on an endless data_loader, driven by a consumer that keeps
\* asking for the next batch: a request that can be made is made, and a record
\* the running generator can pull is pulled.
SpecEndless ==
    /\ InitEndless
    /\ [][NextEndless]_vars
    /\ WF_vars(ConsumerNext)
    /\ WF_vars(PullAccepted)

-----------------------------------------------------------------------------
(* Properties of batch_data *)

\* records handed to the consumer so far
Yielded == SumSeq([i \in 1..Len(emitted) |-> Len(emitted[i].data)])

\* records the normalizer accepted among those pulled so far
Accepted == Cardinality({i \in 1..Len(pulled) : pulled[i].ok})

RoundDown(n, b) == (n \div b) * b

\* C1: every batch emitted has exactly batch_size records in its data array
\* and in its label array, in every configuration, whatever was rejected, and
\* also once the input is exhausted (no partial batch).
Thm_C1_FullBatches ==
    \A i \in 1..Len(emitted) :
        /\ Len(emitted[i].data) = cfg.batch_size
        /\ Len(emitted[i].labels) = cfg.batch_size

\* the input ended with accepted records left over, after a batch, with a
\* rejection on the way
Wit_C1_ExhaustedWithLeftover ==
    /\ pc = "done" /\ exhausted
    /\ Len(emitted) >= 1
    /\ docs_labels # <<>>
    /\ Accepted < Len(pulled)

\* C2: in balanced mode every emitted batch holds exactly batch_size/nlabels
\* records of each of nlabels labels (each record under its own label),
\* whatever the arrival order.
Thm_C2_BalancedCounts ==
    cfg.balance_labels =>
        \A i \in 1..Len(emitted) :
            LET b == emitted[i]
                seen == {b.labels[j] : j \in 1..Len(b.labels)}
            IN  /\ \A j \in 1..Len(b.data) : pulled[b.data[j]].label = b.labels[j]
                /\ Cardinality(seen) = cfg.nlabels
                /\ \A l \in seen :
                      Count(b.labels, l) = cfg.batch_size \div cfg.nlabels

\* two balanced batches over two labels, from an input that did not alternate
Wit_C2_TwoBalancedBatches ==
    /\ cfg.balance_labels /\ cfg.nlabels = 2
    /\ Len(emitted) >= 2
    /\ Len(pulled) >= 2 /\ pulled[1].label = pulled[2].label

\* C3: with max_records set, the number of records yielded so far is always a
\* multiple of batch_size and never above max_records.
Thm_C3_CapRespected ==
    cfg.max_records # None =>
        /\ Yielded % cfg.batch_size = 0
        /\ Yielded <= cfg.max_records

\* the generator returned at the cap, a full batch in its queue, after emitting
Wit_C3_HaltedAtCap ==
    /\ cfg.max_records # None
    /\ pc = "done" /\ ~exhausted
    /\ Len(emitted) >= 1
    /\ Yielded < cfg.max_records

\* C4: unbalanced mode, finite stream, generator finished: the records yielded
\* are the lesser of the accepted records of the stream and max_records,
\* rounded down to a multiple of batch_size (without max_records, the accepted
\* records rounded down).  When the generator returned at the cap, the stream
\* goes on with some number `more` of accepted records never pulled.
Thm_C4_TotalYielded ==
    (~cfg.balance_labels /\ pc = "done") =>
        \A more \in (IF exhausted THEN {0} ELSE 0..MaxPulls) :
            LET acc == Accepted + more
            IN  Yielded = RoundDown(IF cfg.max_records = None THEN acc
                                    ELSE Min(acc, cfg.max_records),
                                    cfg.batch_size)

\* an exhausted stream with rejected records and a dropped remainder, the cap
\* not a multiple of batch_size
Wit_C4_RoundedDown ==
    /\ ~cfg.balance_labels /\ pc = "done" /\ exhausted
    /\ cfg.batch_size = 2 /\ cfg.max_records = 3
    /\ Accepted = 3 /\ Len(pulled) > 3
    /\ Yielded = 2

\* balance_labels is set and nlabels is missing or does not divide batch_size
Unbalanceable ==
    /\ cfg.balance_labels
    /\ (cfg.nlabels = None \/ cfg.batch_size % cfg.nlabels # 0)

\* C11 as stated: balance_labels with a batch_size that nlabels does not divide
\* (or with nlabels missing) fails at the invocation itself: as soon as the call
\* has been made the generator has raised AssertionError, with no record pulled
\* and no batch emitted.
Cex_C11_FailsAtInvocation ==
    Unbalanceable =>
        /\ pc = "raised" /\ err = "AssertionError"
        /\ pulled = <<>> /\ emitted = <<>>

\* C11, amended: balance_labels with a batch_size that nlabels does not divide
\* (or with nlabels missing) is fatal, but not at the invocation: batch_data is a
\* generator, so the call returns it unstarted, and the AssertionError is raised
\* by the first request for a batch.  Until then nothing has failed; the body
\* never runs past the assertions, so no record is ever pulled from the source,
\* the failure is not recovered, and no batch is ever emitted.
Thm_C11_FailsAtFirstRequest ==
    Unbalanceable =>
        /\ pc \in {"created", "raised"}
        /\ (pc = "created") <=> (err = "none")
        /\ (pc = "raised") <=> (err = "AssertionError")
        /\ pulled = <<>> /\ emitted = <<>> /\ ~exhausted
        /\ docs = <<>> /\ docs_labels = <<>> /\ nr_yielded = 0

\* the first request for a batch has raised AssertionError: batch_size 1 cannot
\* be balanced over 2 labels
Wit_C11_RaisedOnFirstRequest ==
    /\ cfg.balance_labels /\ cfg.nlabels = 2 /\ cfg.batch_size = 1
    /\ pc = "raised" /\ err = "AssertionError"

\* times document i sits in a queue
InQueues(i) ==
    LET ks == sorted(DOMAIN docs)
    IN  SumSeq([n \in 1..Len(ks) |-> Count(docs[ks[n]], i)])
        + Cardinality({j \in 1..Len(docs_labels) : docs_labels[j][1] = i})

\* times document i sits in an emitted batch
InBatches(i) ==
    SumSeq([k \in 1..Len(emitted) |-> Count(emitted[k].data, i)])

\* C13: a record the normalizer rejects is dropped: it is in no queue and in no
\* emitted batch, so it does not count toward batch_size, and after it the
\* generator goes on to the next record.  Every accepted record is enqueued
\* exactly once: it is in one queue or one batch, at one position (or, once a
\* dispatch has failed, at most one).
Thm_C13_RejectedDropped ==
    /\ \A i \in 1..Len(pulled) :
          IF pulled[i].ok
          THEN /\ InQueues(i) + InBatches(i) <= 1
               /\ err = "none" => InQueues(i) + InBatches(i) = 1
          ELSE InQueues(i) = 0 /\ InBatches(i) = 0
    /\ (Len(pulled) > 0 /\ ~pulled[Len(pulled)].ok /\ ~exhausted) => pc = "running"

\* a record was rejected between two accepted ones, and a batch holding the
\* records around it was emitted
Wit_C13_RejectedBetweenAccepted ==
    /\ Len(pulled) >= 3 /\ Len(emitted) >= 1
    /\ pulled[1].ok /\ ~pulled[2].ok /\ pulled[3].ok
    /\ emitted[1].data = <<1, 3>>

\* document i was dispatched before position j of batch k
DispatchedBefore(i, k, j) ==
    \E k2 \in 1..k : \E j2 \in 1..Len(emitted[k2].data) :
        /\ emitted[k2].data[j2] = i
        /\ (k2 < k \/ j2 < j)

\* C14 (as claimed): in balanced mode, for any nlabels distinct labels and not
\* only 0..nlabels-1, a dispatch builds the batch round-robin in sorted label
\* order: it does not fail, and position j of the batch holds the oldest record
\* not yet dispatched of the label at place (j-1) mod nlabels of the sorted
\* labels.
Cex_C14_RoundRobinAnyLabels ==
    cfg.balance_labels =>
        /\ err # "KeyError"
        /\ \A k \in 1..Len(emitted) :
              LET b == emitted[k]
                  ls == sorted({b.labels[j] : j \in 1..Len(b.labels)})
              IN  \A j \in 1..Len(b.data) :
                      /\ b.labels[j] = ls[((j - 1) % cfg.nlabels) + 1]
                      /\ pulled[b.data[j]].label = b.labels[j]
                      /\ \A i \in 1..(b.data[j] - 1) :
                            (pulled[i].ok /\ pulled[i].label = b.labels[j])
                                => DispatchedBefore(i, k, j)

RECURSIVE Concat(_)
Concat(ss) == IF ss = <<>> THEN <<>> ELSE Head(ss) \o Concat(Tail(ss))

\* the (document, label) pairs of the emitted batches, one batch after another
EmittedPairs ==
    Concat([k \in 1..Len(emitted) |->
               [j \in 1..Len(emitted[k].data) |->
                   <<emitted[k].data[j], emitted[k].labels[j]>>]])

\* the (document, label) pairs of the accepted records, in arrival order
AcceptedPairs ==
    SelectSeq([i \in 1..Len(pulled) |-> <<i, pulled[i].label>>],
              LAMBDA x : pulled[x[1]].ok)

\* C15: in unbalanced mode the batches emitted so far, laid end to end, are
\* always a prefix of the accepted (record, label) pairs in arrival order; and
\* a batch is dispatched as soon as the queue holds batch_size pairs, so the
\* queue is shorter than that at every other time (it holds a full batch only
\* when the generator returned at the max_records cap).
Thm_C15_ArrivalOrder ==
    ~cfg.balance_labels =>
        /\ Len(EmittedPairs) <= Len(AcceptedPairs)
        /\ EmittedPairs = SubSeq(AcceptedPairs, 1, Len(EmittedPairs))
        /\ \/ Len(docs_labels) < cfg.batch_size
           \/ /\ Len(docs_labels) = cfg.batch_size
              /\ pc = "done" /\ ~exhausted
              /\ cfg.max_records # None
              /\ nr_yielded + cfg.batch_size > cfg.max_records

\* two unbalanced batches of two records, the first with mixed labels, a
\* rejected record among the pulled ones, the second batch just dispatched
Wit_C15_TwoBatchesInOrder ==
    /\ ~cfg.balance_labels /\ cfg.batch_size = 2
    /\ Len(emitted) = 2
    /\ emitted[1].labels[1] # emitted[1].labels[2]
    /\ Accepted < Len(pulled)
    /\ emitted[2].data[2] = Len(pulled)

\* the labels of the accepted records among the records p
SeenLabels(p) == {p[i].label : i \in {j \in 1..Len(p) : p[j].ok}}

\* accepted records of label l among the records p
AcceptedOf(p, l) == Cardinality({i \in 1..Len(p) : p[i].ok /\ p[i].label = l})

\* records of label l in the batches e
EmittedOf(e, l) == SumSeq([k \in 1..Len(e) |-> Count(e[k].labels, l)])

\* C16: in balanced mode a batch is emitted only by a step at which the
\* distinct labels seen so far number exactly nlabels and every one of them
\* has at least batch_size/nlabels accepted records not yet emitted (the length
\* of its queue); so no batch is emitted while fewer than nlabels labels have
\* been seen, and none once more than nlabels have been seen.
Thm_C16_BalancedDispatchGuard ==
    [][(cfg.balance_labels /\ Len(emitted') > Len(emitted)) =>
          /\ Cardinality(SeenLabels(pulled')) = cfg.nlabels
          /\ \A l \in SeenLabels(pulled') :
                AcceptedOf(pulled', l) - EmittedOf(emitted, l)
                    >= cfg.batch_size \div cfg.nlabels]_vars

\* after a balanced batch over two labels a third label arrived: every queue
\* holds the records of a batch again, and the generator pulls on
Wit_C16_ThirdLabelSeen ==
    /\ cfg.balance_labels /\ cfg.nlabels = 2
    /\ Len(emitted) = 1
    /\ Cardinality(DOMAIN docs) = 3
    /\ \A k \in DOMAIN docs : Len(docs[k]) >= cfg.batch_size \div cfg.nlabels
    /\ pc = "running"

\* C19: batch_data is pull-driven.  A record is pulled only by a step of the
\* running generator, that is while a consumer waits for a batch, and one at a
\* time; so none is pulled before the first request or between the hand-over
\* of a batch and the next request.  In unbalanced mode, when the k-th batch
\* has been handed over, the last record pulled is the one that completed it,
\* and with no rejections exactly k * batch_size records have been pulled.
Thm_C19_PullDriven ==
    /\ []((~cfg.balance_labels /\ pc = "suspended") =>
            LET b == emitted[Len(emitted)]
            IN  /\ b.data[Len(b.data)] = Len(pulled)
                /\ Accepted = Len(pulled) =>
                      Len(pulled) = Len(emitted) * cfg.batch_size)
    /\ [][pulled' # pulled =>
            /\ pc = "running"
            /\ Len(pulled') = Len(pulled) + 1
            /\ SubSeq(pulled', 1, Len(pulled)) = pulled]_vars

\* the second unbalanced batch of two has just been handed over, nothing
\* rejected: four records pulled
Wit_C19_SecondBatchHandedOver ==
    /\ ~cfg.balance_labels /\ cfg.batch_size = 2
    /\ pc = "suspended"
    /\ Len(emitted) = 2
    /\ Accepted = Len(pulled)
    /\ Len(pulled) = 4

\* No record can end the generator any more: balanced batching with more than
\* nlabels labels queued.  Lines 95-100 only ever add a key to docs, so
\* len(docs) == nlabels (line 110) stays false whatever is pulled, and neither
\* a dispatch nor the return of line 124, both inside that test, is reached.
Starved ==
    /\ cfg.balance_labels /\ cfg.nlabels # None
    /\ Cardinality(DOMAIN docs) > cfg.nlabels

\* C20 as stated: with max_records set, on a data_loader that keeps supplying
\* accepted records without end, the generator comes to its end after finitely
\* many records, and once it has returned no further batch is emitted.  If
\* every such run ends, the end stays within reach in every state of it: the
\* generator is never in a state from which no further records can end it.
\* Starved is such a state (third part of Thm_C20_UnbalancedTerminatesAtCap).
Cex_C20_TerminatesOnEndlessSource ==
    /\ [](~Starved)
    /\ [][pc = "done" => (pc' = "done" /\ emitted' = emitted)]_vars

\* records an unbalanced run pulls before it returns at the cap
PullsToCap == ((cfg.max_records \div cfg.batch_size) + 1) * cfg.batch_size

\* the queues hold a batch: the dispatch condition of lines 109-112, read off
\* the queues q (balanced) and ql (unbalanced)
HoldsBatch(q, ql) ==
    IF cfg.balance_labels
    THEN /\ Cardinality(DOMAIN q) = cfg.nlabels
         /\ \A k \in DOMAIN q : Len(q[k]) >= cfg.batch_size \div cfg.nlabels
    ELSE Len(ql) >= cfg.batch_size

\* C20, amended: with max_records set, on a data_loader that keeps supplying
\* accepted records without end,
\*  - with unbalanced batching the generator returns, after exactly
\*    (max_records div batch_size + 1) * batch_size records pulled, which is at
\*    most max_records + batch_size;
\*  - in either mode the generator returns only on a record that leaves a
\*    whole batch in the queues (in balanced mode: exactly nlabels labels
\*    queued, each with batch_size / nlabels documents or more) while one more
\*    batch would pass max_records: reaching the cap does not end it by itself;
\*  - in balanced mode, once more than nlabels labels are queued the generator
\*    is running and stays so on every further record: it never returns, fails
\*    or emits again;
\*  - in either mode, once the generator has returned no batch is emitted and
\*    no record pulled.
Thm_C20_UnbalancedTerminatesAtCap ==
    /\ <>(cfg.balance_labels \/ pc = "done")
    /\ [](~cfg.balance_labels =>
            /\ Len(pulled) <= PullsToCap
            /\ PullsToCap <= cfg.max_records + cfg.batch_size
            /\ pc = "done" <=> Len(pulled) = PullsToCap)
    /\ [][(pc # "done" /\ pc' = "done") =>
            /\ Len(pulled') = Len(pulled) + 1
            /\ HoldsBatch(docs', docs_labels')
            /\ nr_yielded + cfg.batch_size > cfg.max_records]_vars
    /\ [](Starved => pc = "running")
    /\ [][Starved => (/\ Cardinality(DOMAIN docs') > cfg.nlabels
                      /\ pc' = "running" /\ emitted' = emitted)]_vars
    /\ [][pc = "done" =>
            (pc' = "done" /\ emitted' = emitted /\ pulled' = pulled)]_vars

\* an unbalanced run with max_records 4 returned after two batches of two, at
\* the sixth record of the endless data_loader
Wit_C20_ReturnedAtCap ==
    /\ ~cfg.balance_labels /\ cfg.batch_size = 2 /\ cfg.max_records = 4
    /\ pc = "done" /\ ~exhausted
    /\ Len(emitted) = 2
    /\ Len(pulled) = 6

\* C22 (as claimed): in balanced mode, whenever the dispatch condition holds
\* after a record, the accumulation loop ends after exactly batch_size passes,
\* each a successful pop: the pop from an empty queue is never reached and no
\* other failure is raised, so the batch is handed over.  (A dispatch that
\* returns at the max_records cap, before any pop, is left aside.)
Cex_C22_DispatchPopsBatchSize ==
    [][(cfg.balance_labels /\ pc = "running" /\ Len(pulled') = Len(pulled) + 1) =>
          LET r == pulled'[Len(pulled')]
              d1 == IF Rejected(r) THEN docs
                    ELSE EnqueueDocs(cfg, docs, Len(pulled'), r.label)
              s == Dispatch(cfg, nr_yielded, d1, docs_labels)
          IN  (DispatchReady(cfg, d1, docs_labels) /\ ~CapReached(cfg, nr_yielded)) =>
                  /\ s.out = "ok" /\ s.iters = cfg.batch_size /\ s.skips = 0
                  /\ pc' = "suspended" /\ err' = "none"
                  /\ Len(emitted') = Len(emitted) + 1]_vars

-----------------------------------------------------------------------------
(* pick_splits *)

\* A probability p is held as the integer p * Grid, and so is the draw of
\* np.random.random(): sums and comparisons are then exact.  (In double
\* precision the last cutoff, s + (1 - s), also comes out as exactly 1.0 when
\* both sums add in the same order, as they do for fewer than 8 splits.)

\* the sequences over S of length 0..n
RECURSIVE SeqsUpTo(_, _)
SeqsUpTo(S, n) ==
    IF n = 0 THEN {<<>>}
    ELSE LET shorter == SeqsUpTo(S, n - 1)
         IN  shorter \cup {Append(q, x) : q \in shorter, x \in S}

\* np.cumsum, line 307
RECURSIVE cumsum(_)
cumsum(s) ==
    IF s = <<>> THEN <<>>
    ELSE LET front == cumsum(SubSeq(s, 1, Len(s) - 1))
         IN  Append(front, (IF front = <<>> THEN 0 ELSE front[Len(front)]) + s[Len(s)])

\* line 304: assert np.sum(splits) < 1.0
SplitsAssertHolds(splits) == SumSeq(splits) < Grid

\* lines 313-317: the scan of the cutoffs from bin_num on; None when the loop
\* ends without a return
RECURSIVE ScanCutoffs(_, _, _)
ScanCutoffs(cum_cutoffs, pick_num, bin_num) ==
    IF bin_num >= Len(cum_cutoffs) THEN None
    ELSE IF pick_num < cum_cutoffs[bin_num + 1] THEN bin_num
    ELSE ScanCutoffs(cum_cutoffs, pick_num, bin_num + 1)

\* line 305 left out: no bin for the remaining probability
WithLastBin_Forgotten(splits) == splits

\* lines 303-305: the copy of splits with 1 - sum(splits) appended
WithLastBin(splits) == Append(splits, Grid - SumSeq(splits))

\* lines 303-317, past the assertion, for the draw pick_num
pick_splits(splits, pick_num) ==
    ScanCutoffs(cumsum(WithLastBin(splits)), pick_num, 0)

PickInit ==
    /\ pk_splits \in SeqsUpTo(0..(Grid - 1), MaxSplits)
    /\ pk_num \in 0..(Grid - 1)
    /\ pk_pc = "called"
    /\ pk_result = None

\* pick_splits returns
PickReturn ==
    /\ pk_pc = "called"
    /\ SplitsAssertHolds(pk_splits)
    /\ pk_result' = pick_splits(pk_splits, pk_num)
    /\ pk_pc' = "returned"
    /\ UNCHANGED <<pk_splits, pk_num, bvars, svars>>

\* the assertion of line 304 fails
PickAssertFails ==
    /\ pk_pc = "called"
    /\ ~SplitsAssertHolds(pk_splits)
    /\ pk_pc' = "raised"
    /\ UNCHANGED <<pk_splits, pk_num, pk_result, bvars, svars>>

InitPick == BatchIdle /\ PickInit /\ SplitIdle

NextPick == PickReturn \/ PickAssertFails

\* pick_splits applied to every splits list and draw of the grid
SpecPick == InitPick /\ [][NextPick]_vars

\* the cutoff of bin i (0-based): the probabilities of bins 0..i added up
Cutoff(splits, i) ==
    IF i < Len(splits) THEN SumSeq(SubSeq(splits, 1, i + 1)) ELSE Grid

\* C5: for splits in [0,1) summing to less than 1 and a draw in [0,1),
\* pick_splits returns an index in [0, len(splits)] (never None), that of the
\* first bin whose cumulative cutoff exceeds the draw.
Thm_C5_FirstBinAboveDraw ==
    (pk_pc = "returned") =>
        /\ pk_result \in 0..Len(pk_splits)
        /\ pk_num < Cutoff(pk_splits, pk_result)
        /\ \A i \in 0..(pk_result - 1) : ~(pk_num < Cutoff(pk_splits, i))

\* the draw fell in the last bin, past an empty bin
Wit_C5_LastBin ==
    /\ pk_pc = "returned"
    /\ Len(pk_splits) = 2 /\ pk_splits[2] = 0 /\ pk_splits[1] > 0
    /\ pk_result = 2

-----------------------------------------------------------------------------
(* The HDF5 file, write_batch_to_h5, H5Iterator, split_data *)

\* The file at h5_path: whether it exists, and its datasets data_<i> and
\* labels_<i> as functions from the bin numbers i that have one to the rows
\* of the dataset (its leading dimension is the length of the sequence).
NoFile == [exists |-> FALSE, data |-> <<>>, labels |-> <<>>]

\* h5py.File(h5_path, "w"), line 401: a new file without datasets
EmptyStore == [exists |-> TRUE, data |-> <<>>, labels |-> <<>>]

\* the row of a dataset that was allocated and never written (HDF5 fill value)
Fill == [batch |-> 0, row |-> 0]

\* The k-th batch of a batch_iterator, n rows: row j of its data array and row
\* j of its label array belong to the same record, named by k and j.
BatchRows(k, n) == [j \in 1..n |-> [batch |-> k, row |-> j]]

\* line 394
NbSlices(splits) == Len(splits) + 1

\* CreatePath ignoring the file on disk
CreatePath_Always(overwrite_previous, f) == TRUE

\* line 400: overwrite_previous or not os.path.isfile(h5_path)
CreatePath(overwrite_previous, f) == overwrite_previous \/ ~f.exists

\* lines 407-417: data_<i> and labels_<i> for every bin, with the shape of the
\* first batch
create_datasets(f, nb_slices, new_data, new_labels) ==
    [f EXCEPT !.data = [i \in 0..(nb_slices - 1) |->
                            [j \in 1..Len(new_data) |-> Fill]],
              !.labels = [i \in 0..(nb_slices - 1) |->
                            [j \in 1..Len(new_labels) |-> Fill]]]

\* Dataset.resize(size, 0): rows kept up to size, new rows hold the fill value
resize(rows, size) ==
    [j \in 1..size |-> IF j <= Len(rows) THEN rows[j] ELSE Fill]

\* assign_slice writing at the start of the dataset whatever start_i is
assign_slice_FromZero(rows, start_i, end_i, new_rows) ==
    [j \in 1..Len(rows) |->
        IF j <= end_i - start_i THEN new_rows[j] ELSE rows[j]]

\* dataset[start_i:end_i, ...] = new_rows
assign_slice(rows, start_i, end_i, new_rows) ==
    [j \in 1..Len(rows) |->
        IF start_i < j /\ j <= end_i THEN new_rows[j - start_i] ELSE rows[j]]

\* CallerList when the function stores into the list it was given
CallerList_Aliased(data_sizes, updated) == updated

\* line 339: data_sizes is rebound to a copy before line 353 stores into it, so
\* the list the caller passed is, after the call, as it was; `updated` is the
\* list the function returns
CallerList(data_sizes, updated) == data_sizes

\* write_batch_to_h5 recording the length of the batch as the size of its bin
write_batch_to_h5_SizeOfBatch(splits, h5_file, data_sizes, new_data, new_labels, pick_num) ==
    IF Len(new_data) # Len(new_labels) \/ ~SplitsAssertHolds(splits)
    THEN [out |-> "AssertionError", file |-> h5_file, sizes |-> data_sizes,
          arg |-> data_sizes, bin |-> None]
    ELSE LET bin_id == pick_splits(splits, pick_num)
             start_i == data_sizes[bin_id + 1]
             end_i == start_i + Len(new_data)
         IN  [out |-> "ok",
              file |-> [h5_file EXCEPT
                  !.data[bin_id] = assign_slice(resize(h5_file.data[bin_id], end_i),
                                                start_i, end_i, new_data),
                  !.labels[bin_id] = assign_slice(resize(h5_file.labels[bin_id], end_i),
                                                  start_i, end_i, new_labels)],
              sizes |-> [data_sizes EXCEPT ![bin_id + 1] = Len(new_data)],
              arg |-> data_sizes,
              bin |-> bin_id]

\* lines 336-354, for the draw pick_num of pick_splits.  The result holds the
\* file, the list returned (sizes), the list the caller passed as it is after
\* the call (arg), the bin chosen and out: "ok" or the exception raised.  The
\* lookup of data_<bin> (line 347) raises KeyError with the file untouched; the
\* lookup of labels_<bin> (line 348) raises it when data_<bin> has already been
\* resized to end_i.
write_batch_to_h5(splits, h5_file, data_sizes, new_data, new_labels, pick_num) ==
    IF Len(new_data) # Len(new_labels) \/ ~SplitsAssertHolds(splits)
    THEN [out |-> "AssertionError", file |-> h5_file, sizes |-> data_sizes,
          arg |-> data_sizes, bin |-> None]
    ELSE LET bin_id == pick_splits(splits, pick_num)
         IN  IF bin_id = None
             THEN [out |-> "TypeError", file |-> h5_file, sizes |-> data_sizes,
                   arg |-> data_sizes, bin |-> None]
             ELSE IF bin_id \notin DOMAIN h5_file.data
             THEN [out |-> "KeyError", file |-> h5_file, sizes |-> data_sizes,
                   arg |-> data_sizes, bin |-> bin_id]
             ELSE IF bin_id \notin DOMAIN h5_file.labels
             THEN [out |-> "KeyError",
                   file |-> [h5_file EXCEPT
                       !.data[bin_id] =
                           resize(h5_file.data[bin_id],
                                  data_sizes[bin_id + 1] + Len(new_data))],
                   sizes |-> data_sizes, arg |-> data_sizes, bin |-> bin_id]
             ELSE LET start_i == data_sizes[bin_id + 1]
                      end_i == start_i + Len(new_data)
                  IN  [out |-> "ok",
                       file |-> [h5_file EXCEPT
                           !.data[bin_id] =
                               assign_slice(resize(h5_file.data[bin_id], end_i),
                                            start_i, end_i, new_data),
                           !.labels[bin_id] =
                               assign_slice(resize(h5_file.labels[bin_id], end_i),
                                            start_i, end_i, new_labels)],
                       sizes |-> [data_sizes EXCEPT ![bin_id + 1] = end_i],
                       arg |-> CallerList(data_sizes,
                                  [data_sizes EXCEPT ![bin_id + 1] = end_i]),
                       bin |-> bin_id]

\* lines 421-427: the size of each bin read back from data_<i>, 0 when the
\* file has no such dataset
RecoverSizes(f, nb_slices) ==
    [i \in 1..nb_slices |->
        IF (i - 1) \in DOMAIN f.data THEN Len(f.data[i - 1]) ELSE 0]

\* H5Iterator.__init__, lines 259-264, on data_<bin_i> and labels_<bin_i>
H5Iterator(f, bin_i, shuffle) ==
    [data_bin |-> bin_i, labels_bin |-> bin_i, shuffle |-> shuffle,
     indices |-> [j \in 1..Len(f.data[bin_i]) |-> j - 1]]

\* lines 431-437: one H5Iterator per bin, in bin order; KeyError from
\* self.h5file[data_name] (lines 261-262) when a dataset is missing
MakeReaders(f, nb_slices, shuffle) ==
    IF \A i \in 0..(nb_slices - 1) : i \in DOMAIN f.data /\ i \in DOMAIN f.labels
    THEN [out |-> "ok",
          readers |-> [i \in 1..nb_slices |-> H5Iterator(f, i - 1, shuffle)]]
    ELSE [out |-> "KeyError", readers |-> <<>>]

\* lines 271-274: the indices a generator may visit next.  The permutation of
\* line 272 is drawn when the pass starts and nothing of it shows but the
\* index of each next(); drawing the whole order first and drawing the next
\* index among those not visited yet give the same passes.  Without shuffle
\* the order is self.indices.
NextIndices(reader, visited) ==
    IF reader.shuffle
    THEN {reader.indices[j] : j \in 1..Len(reader.indices)} \ visited
    ELSE IF Cardinality(visited) < Len(reader.indices)
         THEN {reader.indices[Cardinality(visited) + 1]}
         ELSE {}

\* lines 280 and 289: self.data[which_index] and self.labels[which_index];
\* reading a row past the end of a dataset makes h5py raise
Readable(f, reader, which_index) ==
    /\ which_index + 1 <= Len(f.data[reader.data_bin])
    /\ which_index + 1 <= Len(f.labels[reader.labels_bin])

\* a generator made by iter(reader), before its first next()
NewPass(reader) == [reader |-> reader, visited |-> {}, state |-> "suspended"]

\* lines 276-297: one next() on the generator p of the reader at position i.
\* The loop takes the next index and reads its two rows from the file; the
\* generator yields the pair and is suspended at line 297, or the read raises
\* and the generator is finished, or no index is left and it stops.
StepPass(i, p) ==
    LET nxt == NextIndices(p.reader, p.visited)
        put(q) == [j \in DOMAIN passes \cup {i} |-> IF j = i THEN q ELSE passes[j]]
    IN  IF nxt = {}
        THEN /\ passes' = put([p EXCEPT !.state = "done"])
             /\ UNCHANGED last_yield
        ELSE \E which_index \in nxt :
                IF Readable(file, p.reader, which_index)
                THEN /\ passes' = put([p EXCEPT
                                          !.visited = p.visited \cup {which_index}])
                     /\ last_yield' =
                            [reader |-> i, index |-> which_index,
                             data |-> file.data[p.reader.data_bin][which_index + 1],
                             label |-> file.labels[p.reader.labels_bin][which_index + 1]]
                ELSE /\ passes' = put([p EXCEPT !.state = "raised"])
                     /\ UNCHANGED last_yield

NotPopulated == [valid |-> FALSE, splits |-> <<>>, sizes |-> <<>>]

SplitInit ==
    /\ sp_call = <<>>
    /\ sp_pc = "idle"
    /\ sp_err = "none"
    /\ file = NoFile
    /\ bin_sizes = <<>>
    /\ initialized_file = FALSE
    /\ written = <<>>
    /\ readers = <<>>
    /\ passes = <<>>
    /\ last_yield = <<>>
    /\ file_at_call = NoFile
    /\ populated = NotPopulated

\* lines 429-437 at the end of a call that found or wrote the file f with
\* bin sizes `sizes`: the readers are built and the call returns, or raises
ReturnReaders(f, sizes, wrote) ==
    LET made == MakeReaders(f, NbSlices(sp_call'.splits), sp_call'.shuffle)
    IN  /\ readers' = made.readers
        /\ IF made.out = "ok"
           THEN /\ sp_pc' = "returned"
                /\ sp_err' = "none"
                /\ populated' = IF wrote
                                THEN [valid |-> TRUE, splits |-> sp_call'.splits,
                                      sizes |-> sizes]
                                ELSE populated
           ELSE /\ sp_pc' = "raised"
                /\ sp_err' = made.out
                /\ populated' = IF wrote THEN NotPopulated ELSE populated

\* split_data is called: lines 393-401, and on the reuse path the whole call,
\* lines 420-437.  On the create path with batch_iterator None the for
\* statement of line 403 raises TypeError once the file has been created.
\* A call may come between two yields of a pass.  The reuse path leaves the
\* file alone and the generators of earlier readers go on; the create path
\* truncates the file (line 401), which h5py refuses while a reader holds it
\* open, so the consumer has let go of the earlier readers and their passes.
split_data(it, sl, ow, sh) ==
    /\ sp_call' = [batch_iterator |-> it, splits |-> sl,
                   overwrite_previous |-> ow, shuffle |-> sh]
    /\ file_at_call' = IF ow THEN [NoFile EXCEPT !.exists = file.exists]
                       ELSE file
    /\ written' = <<>>
    /\ IF CreatePath(ow, file)
       THEN passes' = <<>> /\ last_yield' = <<>>
       ELSE UNCHANGED <<passes, last_yield>>
    /\ initialized_file' = FALSE
    /\ IF CreatePath(ow, file)
       THEN /\ file' = EmptyStore
            /\ bin_sizes' = [i \in 1..NbSlices(sl) |-> 0]
            /\ readers' = <<>>
            /\ populated' = NotPopulated
            /\ IF it = "None"
               THEN sp_pc' = "raised" /\ sp_err' = "TypeError"
               ELSE sp_pc' = "writing" /\ sp_err' = "none"
       ELSE /\ file' = file
            /\ bin_sizes' = RecoverSizes(file, NbSlices(sl))
            /\ ReturnReaders(file, RecoverSizes(file, NbSlices(sl)), FALSE)
    /\ UNCHANGED <<bvars, pvars>>

\* a call of split_data with any arguments, once no call is under way
SplitCall ==
    /\ sp_pc \in {"idle", "returned", "raised"}
    /\ \E it \in {"None", "stream"}, sl \in SplitChoices,
          ow \in BOOLEAN, sh \in BOOLEAN : split_data(it, sl, ow, sh)

\* One iteration of the loop of line 403: the batch_iterator supplies a batch
\* of n_data data rows and n_labels label rows; lines 405-419.
WriteBatch ==
    /\ sp_pc = "writing"
    /\ Len(written) < MaxBatches
    /\ \E n_data \in BatchLens, n_labels \in BatchLens, pick_num \in 0..(Grid - 1) :
        LET k == Len(written) + 1
            new_data == BatchRows(k, n_data)
            new_labels == BatchRows(k, n_labels)
            f1 == IF initialized_file THEN file
                  ELSE create_datasets(file, NbSlices(sp_call.splits),
                                       new_data, new_labels)
            w == write_batch_to_h5(sp_call.splits, f1, bin_sizes,
                                   new_data, new_labels, pick_num)
        IN  /\ initialized_file' = TRUE
            /\ file' = w.file
            /\ bin_sizes' = w.sizes
            /\ written' = Append(written,
                   [len |-> n_data, bin |-> w.bin, out |-> w.out,
                    sizes_in |-> bin_sizes, sizes_arg |-> w.arg,
                    sizes_out |-> w.sizes])
            /\ IF w.out = "ok"
               THEN UNCHANGED <<sp_pc, sp_err>>
               ELSE sp_pc' = "raised" /\ sp_err' = w.out
    /\ UNCHANGED <<sp_call, readers, passes, last_yield, file_at_call, populated>>
    /\ UNCHANGED <<bvars, pvars>>

\* The batch_iterator is exhausted: the file is closed and lines 429-437 run.
BatchesExhausted ==
    /\ sp_pc = "writing"
    /\ UNCHANGED sp_call
    /\ ReturnReaders(file, bin_sizes, TRUE)
    /\ UNCHANGED <<file, bin_sizes, initialized_file, written, passes,
                   last_yield, file_at_call>>
    /\ UNCHANGED <<bvars, pvars>>

\* iter(reader) and the first next(): H5Iterator.__iter__, lines 269-297, up
\* to its first yield.  A generator the consumer held on the same reader is
\* dropped where it stood.
IterStart ==
    /\ sp_pc = "returned"
    /\ \E i \in 1..Len(readers) : StepPass(i, NewPass(readers[i]))
    /\ UNCHANGED <<sp_call, sp_pc, sp_err, file, bin_sizes, initialized_file,
                   written, readers, file_at_call, populated>>
    /\ UNCHANGED <<bvars, pvars>>

\* A later next() on a suspended generator: the loop of line 276 resumes after
\* the yield of line 297.  The consumer may have done anything in between:
\* resumed another generator, started one, called split_data.
IterResume ==
    /\ \E i \in DOMAIN passes :
          /\ passes[i].state = "suspended"
          /\ StepPass(i, passes[i])
    /\ UNCHANGED <<sp_call, sp_pc, sp_err, file, bin_sizes, initialized_file,
                   written, readers, file_at_call, populated>>
    /\ UNCHANGED <<bvars, pvars>>

InitSplit == BatchIdle /\ PickIdle /\ SplitInit

NextSplit == SplitCall \/ WriteBatch \/ BatchesExhausted

\* split_data calls on one h5_path.  Reading the readers returned changes no
\* variable a call reads or writes; SpecRead adds the consumer.
SpecSplit == InitSplit /\ [][NextSplit]_vars

\* a call of split_data while the consumer holds no generator
CallUnread == passes = <<>> /\ SplitCall

\* split_data(None, h5_path, splits, overwrite_previous=False, shuffle) called
\* again between two yields, with the splits and the shuffle flag of the call
\* that returned the readers
Recall ==
    /\ sp_pc = "returned"
    /\ \E i \in DOMAIN passes : passes[i].state = "suspended"
    /\ split_data("None", sp_call.splits, FALSE, sp_call.shuffle)

NextRead ==
    \/ CallUnread \/ WriteBatch \/ BatchesExhausted
    \/ IterStart \/ IterResume \/ Recall

\* split_data calls on one h5_path and a consumer of the readers returned: it
\* starts, resumes and drops generators over them one next() at a time, in any
\* order, and may call split_data again between two yields
SpecRead == InitSplit /\ [][NextRead]_vars

-----------------------------------------------------------------------------
(* Properties of split_data *)

\* a call has been made, and it took the create path of line 400
OnCreatePath ==
    /\ sp_pc # "idle"
    /\ (sp_call.overwrite_previous \/ ~file_at_call.exists)

\* a call has been made, and it took the reuse path of line 420
OnReusePath ==
    /\ sp_pc # "idle"
    /\ ~sp_call.overwrite_previous /\ file_at_call.exists

\* every batch pulled by the call was written (no assertion failed)
WritesOk == \A k \in 1..Len(written) : written[k].bin # None

\* records in the batches pulled by the call
RecordsWritten == SumSeq([k \in 1..Len(written) |-> written[k].len])

\* records in the batches the call assigned to bin b
RecordsOfBin(b) ==
    SumSeq([k \in 1..Len(written) |->
               IF written[k].bin = b THEN written[k].len ELSE 0])

\* every reader returned has been passed over, to the end of the pass
AllPassed ==
    /\ sp_pc = "returned"
    /\ DOMAIN passes = 1..Len(readers)
    /\ \A i \in DOMAIN passes :
          passes[i].reader = readers[i] /\ passes[i].state # "suspended"

\* records yielded by the passes over all the readers
RecordsRead ==
    SumSeq([i \in 1..Len(readers) |-> Cardinality(passes[i].visited)])

\* C6 (as claimed): after a call wrote N batches of batch_size records into a
\* new store, one pass over every reader yields N * batch_size records in
\* all, wherever the batches went.
Cex_C6_RoundTripCount ==
    (/\ OnCreatePath /\ AllPassed /\ WritesOk
     /\ \A k \in 1..Len(written) : written[k].len = written[1].len)
        => RecordsRead = Len(written) * written[1].len

\* C7 (as claimed): a later call with batch_iterator None, the same splits and
\* overwrite_previous False returns the bin sizes the populating call
\* returned, and leaves the file as it was.
Cex_C7_RecoveredSizes ==
    (/\ OnReusePath /\ sp_pc = "returned"
     /\ sp_call.batch_iterator = "None"
     /\ populated.valid /\ populated.splits = sp_call.splits)
        => (bin_sizes = populated.sizes /\ file = file_at_call)

\* C8 (as claimed): on the create path, for a stream of zero or more batches,
\* the call returns len(splits)+1 readers, reader i on data_i and labels_i,
\* with the final bin sizes; with no batch at all, readers over empty bins
\* and sizes all zero.
Cex_C8_ReadersReturned ==
    (/\ OnCreatePath /\ sp_pc \in {"returned", "raised"}
     /\ sp_call.batch_iterator = "stream" /\ WritesOk)
        => /\ sp_pc = "returned"
           /\ Len(readers) = NbSlices(sp_call.splits)
           /\ \A i \in 1..Len(readers) :
                 /\ readers[i].data_bin = i - 1
                 /\ readers[i].labels_bin = i - 1
                 /\ written = <<>> => readers[i].indices = <<>>
           /\ written = <<>> => \A i \in 1..Len(bin_sizes) : bin_sizes[i] = 0

\* C9: in a write pass every batch goes as a whole to exactly one bin: after
\* any number of batches bin_sizes has len(splits)+1 entries, the entry of a
\* bin is the number of records of the batches assigned to it, the entries add
\* up to the records of all the batches, and the rows of a batch sit in the
\* datasets of its bin and of no other.
Thm_C9_BatchesPartitioned ==
    (OnCreatePath /\ sp_call.batch_iterator = "stream" /\ WritesOk) =>
        LET nb == NbSlices(sp_call.splits)
        IN  /\ Len(bin_sizes) = nb
            /\ \A k \in 1..Len(written) : written[k].bin \in 0..(nb - 1)
            /\ \A b \in 0..(nb - 1) : bin_sizes[b + 1] = RecordsOfBin(b)
            /\ SumSeq(bin_sizes) = RecordsWritten
            /\ \A k \in 1..Len(written) : \A j \in 1..written[k].len :
                  \A b \in DOMAIN file.data :
                      (\E r \in 1..Len(file.data[b]) :
                           file.data[b][r] = [batch |-> k, row |-> j])
                      <=> b = written[k].bin

\* two batches of different lengths written, to the same bin or to two bins
Wit_C9_TwoBatches ==
    /\ OnCreatePath /\ sp_pc = "writing" /\ WritesOk
    /\ Len(written) = 2
    /\ written[1].len # written[2].len
    /\ written[1].bin = written[2].bin

\* C10: a call with overwrite_previous False that finds a file at h5_path
\* leaves the file as it found it and pulls no batch, whatever batch_iterator
\* is; so the file is created or overwritten only when overwrite_previous is
\* True or there was no file.
Thm_C10_ReuseLeavesStore ==
    (sp_pc # "idle" /\ ~sp_call.overwrite_previous /\ file_at_call.exists) =>
        /\ file = file_at_call
        /\ written = <<>>
        /\ sp_pc # "writing"

\* a call that was given a batch stream and no leave to overwrite returned
\* with the written store untouched
Wit_C10_StreamIgnored ==
    /\ sp_pc = "returned"
    /\ ~sp_call.overwrite_previous /\ file_at_call.exists
    /\ sp_call.batch_iterator = "stream"
    /\ \E b \in DOMAIN file.data : \E r \in 1..Len(file.data[b]) :
          file.data[b][r] # Fill

\* C12 (as claimed): on the reuse path a bin whose dataset data_i is absent
\* from the file is tolerated: the call does not fail, and the bin sizes it
\* returns have 0 at index i.
Cex_C12_AbsentBinTolerated ==
    LET absent == {i \in 0..(NbSlices(sp_call.splits) - 1) :
                       i \notin DOMAIN file_at_call.data}
    IN  (OnReusePath /\ sp_pc \in {"returned", "raised"} /\ absent # {}) =>
            /\ sp_pc = "returned"
            /\ \A i \in absent : bin_sizes[i + 1] = 0

\* C17: write_batch_to_h5 returns a new size list that differs from the one it
\* was given only at the chosen bin, where it is the old size plus the length
\* of the batch; the list the caller passed is not changed by the call.
Thm_C17_SizesFrame ==
    \A k \in 1..Len(written) :
        LET w == written[k]
        IN  /\ w.sizes_arg = w.sizes_in
            /\ w.out = "ok" =>
                  /\ Len(w.sizes_out) = Len(w.sizes_in)
                  /\ w.sizes_out[w.bin + 1] = w.sizes_in[w.bin + 1] + w.len
                  /\ \A i \in 1..Len(w.sizes_in) :
                        i # w.bin + 1 => w.sizes_out[i] = w.sizes_in[i]

\* a second batch written to the bin that holds the first, one of three bins
Wit_C17_SecondBatchSameBin ==
    /\ Len(written) = 2 /\ written[2].out = "ok"
    /\ Len(written[2].sizes_in) = 3
    /\ written[2].sizes_in[written[2].bin + 1] > 0
    /\ written[2].sizes_out # written[2].sizes_in

\* every written row of the datasets ds is in ds2 at the same place
RowsKept(ds, ds2) ==
    \A b \in DOMAIN ds : \A r \in 1..Len(ds[b]) :
        ds[b][r] # Fill =>
            /\ b \in DOMAIN ds2 /\ r <= Len(ds2[b])
            /\ ds2[b][r] = ds[b][r]

\* C18: during a write pass the store is append-only.  A step that writes a
\* batch to bin b puts its rows in the slice [old_size:old_size+batch_len] of
\* data_b and of labels_b, where old_size is the bin's entry of bin_sizes;
\* every record written before, to any bin, keeps its place and content; no
\* entry of bin_sizes decreases; and the rows already written to bin b all lie
\* before the slice, so a bin holds its records in the order their batches
\* arrived.
Thm_C18_AppendOnly ==
    [][(sp_pc = "writing" /\ Len(written') > Len(written)) =>
          LET w == written'[Len(written')]
              old_size == bin_sizes[w.bin + 1]
          IN  /\ RowsKept(file.data, file'.data)
              /\ RowsKept(file.labels, file'.labels)
              /\ \A i \in 1..Len(bin_sizes) : bin_sizes'[i] >= bin_sizes[i]
              /\ w.out = "ok" =>
                    /\ Len(file'.data[w.bin]) = old_size + w.len
                    /\ Len(file'.labels[w.bin]) = old_size + w.len
                    /\ \A j \in 1..w.len :
                          /\ file'.data[w.bin][old_size + j]
                                 = [batch |-> Len(written'), row |-> j]
                          /\ file'.labels[w.bin][old_size + j]
                                 = [batch |-> Len(written'), row |-> j]
                    /\ w.bin \in DOMAIN file.data =>
                          \A r \in 1..Len(file.data[w.bin]) :
                              file.data[w.bin][r] # Fill => r <= old_size]_vars

\* two batches in one bin, the rows of the first before the rows of the second
Wit_C18_TwoBatchesOneBin ==
    /\ sp_pc = "writing"
    /\ \E b \in DOMAIN file.data :
          /\ Len(file.data[b]) = 3
          /\ file.data[b][1].batch = 1
          /\ file.data[b][3].batch = 2
          /\ file.labels[b] = file.data[b]

\* C21 (as claimed): a pass over an H5Iterator yields every index of its bin
\* exactly once, as many records as the data dataset had rows when the reader
\* was built, each data row with the label row stored at the same index, with
\* shuffle on or off; the order is the stored one without shuffle and some
\* permutation of the indices, drawn for the pass, with it.
Cex_C21_PassYieldsEveryIndex ==
    /\ \A i \in DOMAIN passes :
          LET p == passes[i]
              stored == {p.reader.indices[j] : j \in 1..Len(p.reader.indices)}
          IN  /\ p.state # "raised"
              /\ p.visited \subseteq stored
              /\ p.state = "done" =>
                    /\ p.visited = stored
                    /\ Cardinality(p.visited) = Len(p.reader.indices)
              /\ ~p.reader.shuffle =>
                    p.visited = {p.reader.indices[j] :
                                    j \in 1..Cardinality(p.visited)}
    /\ last_yield # <<>> =>
          LET r == passes[last_yield.reader].reader
          IN  /\ last_yield.index \in passes[last_yield.reader].visited
              /\ last_yield.data = file.data[r.data_bin][last_yield.index + 1]
              /\ last_yield.label = file.labels[r.labels_bin][last_yield.index + 1]

\* C23 (as claimed): in every state of a write pass once the datasets have
\* been created, and in the store the pass leaves, for every bin i the
\* leading dimension of data_i equals that of labels_i and equals
\* bin_sizes[i], the records written to the bin.
Cex_C23_DimsEqualSizes ==
    (/\ OnCreatePath /\ sp_pc \in {"writing", "returned"}
     /\ initialized_file /\ WritesOk) =>
        \A i \in 0..(NbSlices(sp_call.splits) - 1) :
            /\ Len(file.data[i]) = Len(file.labels[i])
            /\ Len(file.data[i]) = bin_sizes[i + 1]
            /\ bin_sizes[i + 1] = RecordsOfBin(i)

====
